---- MODULE Spec2Model ----
(***************************************************************************)
(* A model of the /ask-data Slack bot: the slash-command entry point and   *)
(* its per-request worker thread (app.py), NL->SQL post-processing         *)
(* (llm.py), the pooled query executor and table formatter (db.py) and the *)
(* chart classifier / renderer / disposer (chart.py).                      *)
(*                                                                         *)
(* Text is modelled as a sequence of characters, each character a one-     *)
(* element token, so that the regular expressions of the source are        *)
(* computed position by position as the regex engine computes them.        *)
(***************************************************************************)
EXTENDS Integers, Sequences, FiniteSets, TLC

VARIABLES
    pc,           \* pc[w]: where request w's handler / worker thread is
    body,         \* body[w]: the payload of the slash command
    question,     \* question[w]: the stripped command text (<<>> when empty)
    sql,          \* sql[w]: the statement question_to_sql returned
    exc,          \* exc[w]: the exception in flight inside execute_query / process
    result,       \* result[w]: (columns, rows, total) execute_query returned
    sent,         \* sent[w]: what the user has been sent, in order
    logs,         \* logs[w]: log records written for the request, in order
    started,      \* started[w]: pipeline stages begun, in order
    succeeded,    \* succeeded[w]: pipeline stages that completed without error
    table,        \* table[w]: what format_slack_table returned
    chart_path,   \* chart_path[w]: process()'s local chart_path (NoPath = None)
    files,        \* files[w]: w's temporary chart file: "absent" | "present" | "removed"
    removals,     \* removals[w]: successful os.remove calls on w's chart file
    connection,   \* connection[w]: pool the checked-out connection came from (0 = none)
    txn,          \* txn[w]: transaction status of w's connection
    pending,      \* pending[w]: uncommitted changes made on w's connection
    committed,    \* changes persisted in the data store
    _pool,        \* db._pool: the current pool object (0 = None)
    pools,        \* pools[p]: the pool object created by request p
    matplotlib,   \* chart.MATPLOTLIB_AVAILABLE
    arg,          \* input of a function checked in isolation
    ret           \* its outcome

vars == <<pc, body, question, sql, exc, result, table, sent, logs, started, succeeded,
          chart_path, files, removals, connection, txn, pending, committed,
          _pool, pools, matplotlib, arg, ret>>

(***************************************************************************)
(* Bounds.                                                                 *)
(***************************************************************************)
\* concurrent requests in the pipeline specification
NumReq == 2
\* requests that arrive in the specification of the single request's pipeline
NumActive == 1
\* pieces a model output is assembled from in the synthesizer specification
MaxPieces == 4
\* pieces a SQL text is assembled from in the classifier specification
MaxSqlPieces == 3
\* rows handed to generate_chart in the renderer specification
MaxChartRows == 2
\* calls of cleanup_chart in the disposer specification
MaxCalls == 3
\* rows the store returns in the executor specification, beyond the preview cap
ExtraRows == 1

(***************************************************************************)
(* Characters.                                                             *)
(***************************************************************************)
Backtick == "BACKTICK"
Newline  == "\n"
\* U+017F LATIN SMALL LETTER LONG S: re.IGNORECASE folds it to "s",
\* str.lower() leaves it alone and str.upper() gives "S".
LongS    == "U+017F"

UpperLetters == <<"A","B","C","D","E","F","G","H","I","J","K","L","M",
                  "N","O","P","Q","R","S","T","U","V","W","X","Y","Z">>
LowerLetters == <<"a","b","c","d","e","f","g","h","i","j","k","l","m",
                  "n","o","p","q","r","s","t","u","v","w","x","y","z">>
Digits == {"0","1","2","3","4","5","6","7","8","9"}

IndexIn(seq, c) == CHOOSE i \in 1..Len(seq) : seq[i] = c
IsUpper(c) == \E i \in 1..26 : UpperLetters[i] = c
IsLower(c) == \E i \in 1..26 : LowerLetters[i] = c

\* str.lower() on one character
Lower(c) == IF IsUpper(c) THEN LowerLetters[IndexIn(UpperLetters, c)] ELSE c
\* str.upper() on one character
Upper(c) == IF IsLower(c) THEN UpperLetters[IndexIn(LowerLetters, c)]
            ELSE IF c = LongS THEN "S" ELSE c
\* the case folding re.IGNORECASE compares with
Fold(c) == IF c = LongS THEN "s" ELSE Lower(c)
\* \w of the re module (str patterns): letters, digits, underscore
IsWord(c) == IsUpper(c) \/ IsLower(c) \/ c = LongS \/ c \in Digits \/ c = "_"
\* \s of the re module, and what str.strip() removes
IsSpace(c) == c \in {" ", Newline, "\t"}

LowerStr(s) == [i \in 1..Len(s) |-> Lower(s[i])]
UpperStr(s) == [i \in 1..Len(s) |-> Upper(s[i])]

\* s[i..] starts with the literal lit, compared exactly
StartsAt(s, i, lit) ==
    /\ i + Len(lit) - 1 <= Len(s)
    /\ \A k \in 1..Len(lit) : s[i + k - 1] = lit[k]
\* s[i..] starts with the literal lit under re.IGNORECASE
StartsAtI(s, i, lit) ==
    /\ i + Len(lit) - 1 <= Len(s)
    /\ \A k \in 1..Len(lit) : Fold(s[i + k - 1]) = Fold(lit[k])

\* str.strip()
Strip(s) ==
    LET keep == {i \in 1..Len(s) : ~IsSpace(s[i])}
    IN  IF keep = {} THEN <<>>
        ELSE LET lo == CHOOSE i \in keep : \A j \in keep : i <= j
                 hi == CHOOSE i \in keep : \A j \in keep : j <= i
             IN  SubSeq(s, lo, hi)

(***************************************************************************)
(* llm.py                                                                  *)
(***************************************************************************)
kwFence  == <<Backtick, Backtick, Backtick>>
kwSql    == <<"s","q","l">>
kwSelect == <<"s","e","l","e","c","t">>

\* re.sub(r"```(?:sql)?", "", raw, flags=re.IGNORECASE): left to right, each
\* fence and the language tag that directly follows it are dropped
RECURSIVE SubFence(_)
SubFence(s) ==
    IF s = <<>> THEN <<>>
    ELSE IF StartsAt(s, 1, kwFence)
         THEN IF StartsAtI(s, 4, kwSql)
              THEN SubFence(SubSeq(s, 7, Len(s)))
              ELSE SubFence(SubSeq(s, 4, Len(s)))
         ELSE <<Head(s)>> \o SubFence(Tail(s))

\* .replace("```", ""): one left-to-right pass
RECURSIVE ReplaceFence(_)
ReplaceFence(s) ==
    IF s = <<>> THEN <<>>
    ELSE IF StartsAt(s, 1, kwFence)
         THEN ReplaceFence(SubSeq(s, 4, Len(s)))
         ELSE <<Head(s)>> \o ReplaceFence(Tail(s))

StripFences(raw) == ReplaceFence(SubFence(raw))

\* SELECT\b at position i: the keyword under IGNORECASE, then a word boundary
SelectAt(s, i) ==
    /\ StartsAtI(s, i, kwSelect)
    /\ (i + 6 <= Len(s) => ~IsWord(s[i + 6]))

\* the end of the longest continuation: a greedy .+;
GreedyEnd(s, j) ==
    LET ends == {k \in j..Len(s) : s[k] = ";"}
    IN  IF ends = {} THEN 0 ELSE CHOOSE k \in ends : \A o \in ends : o <= k
\* the end of the shortest .+?; continuation of a SELECT\b found at i
\* (re.DOTALL: . also matches a newline); 0 when there is none
RECURSIVE LazyEnd(_, _)
LazyEnd(s, j) ==
    IF j > Len(s) THEN 0
    ELSE IF s[j] = ";" THEN j
    ELSE LazyEnd(s, j + 1)

MatchEnd(s, i) == IF SelectAt(s, i) THEN LazyEnd(s, i + 7) ELSE 0

\* re.search scans the start positions left to right; <<0, 0>> is no match
RECURSIVE SearchFrom(_, _)
SearchFrom(s, i) ==
    IF i > Len(s) THEN <<0, 0>>
    ELSE IF MatchEnd(s, i) # 0 THEN <<i, MatchEnd(s, i)>>
    ELSE SearchFrom(s, i + 1)

SearchSelect(s) == SearchFrom(s, 1)

\* _clean_sql(raw)
_clean_sql(raw) ==
    LET text == StripFences(raw)
        m    == SearchSelect(text)
    IN  IF m[1] # 0 THEN Strip(SubSeq(text, m[1], m[2]))
        ELSE Strip(text)

\* the validation of question_to_sql: sql.lower().startswith("select")
StartsWithSelect(s) == StartsAt(LowerStr(s), 1, kwSelect)

\* question_to_sql from the model's raw output on: the statement, or ValueError
\* carrying the raw output
question_to_sql(raw_output) ==
    LET s == _clean_sql(raw_output)
    IN  IF ~StartsWithSelect(s)
        THEN [kind |-> "ValueError", detail |-> raw_output]
        ELSE [kind |-> "ok", sql |-> s]

(***************************************************************************)
(* db.py                                                                   *)
(***************************************************************************)
PREVIEW_ROW_LIMIT == 10
minconn == 1
maxconn == 5

\* A RealDictRow / dict row: the ordered <<column, value>> pairs of one record
Keys(row) == [i \in 1..Len(row) |-> row[i][1]]
\* row.get(col, default)
Get(row, col, default) ==
    IF \E i \in 1..Len(row) : row[i][1] = col
    THEN row[CHOOSE i \in 1..Len(row) : row[i][1] = col][2]
    ELSE default

Min(a, b) == IF a <= b THEN a ELSE b

\* the preview without its cap
PreviewUncapped(all_rows) == all_rows
\* all_rows[:PREVIEW_ROW_LIMIT]
Preview(all_rows) == SubSeq(all_rows, 1, Min(Len(all_rows), PREVIEW_ROW_LIMIT))

\* what execute_query returns for the rows fetchall() gave
ExecuteResult(all_rows) ==
    LET preview_rows == Preview(all_rows)
    IN  [columns |-> IF preview_rows # <<>> THEN Keys(preview_rows[1]) ELSE <<>>,
         rows    |-> preview_rows,
         total   |-> Len(all_rows)]

NoFooter == <<>>
\* a formatter that also appends the footer when total = len(rows)
format_slack_table_ge(columns, rows, total) ==
    IF rows = <<>> THEN [kind |-> "no_rows"]
    ELSE [kind   |-> "table",
          header |-> columns,
          data   |-> [r \in 1..Len(rows) |->
                        [c \in 1..Len(columns) |-> Get(rows[r], columns[c], "")]],
          footer |-> IF total >= Len(rows) THEN <<Len(rows), total>> ELSE NoFooter]
\* format_slack_table: the no-rows message, or the table's cells in order with
\* the footer <<K, N>> of "Showing K of N rows."
format_slack_table(columns, rows, total) ==
    IF rows = <<>> THEN [kind |-> "no_rows"]
    ELSE [kind   |-> "table",
          header |-> columns,
          data   |-> [r \in 1..Len(rows) |->
                        [c \in 1..Len(columns) |-> Get(rows[r], columns[c], "")]],
          footer |-> IF total > Len(rows) THEN <<Len(rows), total>> ELSE NoFooter]

(***************************************************************************)
(* chart.py                                                                *)
(***************************************************************************)
kwBetween == <<"B","E","T","W","E","E","N">>
kwDate    == <<"D","A","T","E">>
kwGroup   == <<"G","R","O","U","P">>
kwOrder   == <<"O","R","D","E","R">>
kwBy      == <<"B","Y">>

\* \s* from position j: the first position at or after j that holds no space
RECURSIVE SkipSpaces(_, _)
SkipSpaces(s, j) ==
    IF j <= Len(s) /\ IsSpace(s[j]) THEN SkipSpaces(s, j + 1) ELSE j

\* \b between positions i-1 and i
BoundaryAt(s, i) ==
    LET before == i > 1 /\ i - 1 <= Len(s) /\ IsWord(s[i - 1])
        after  == i <= Len(s) /\ IsWord(s[i])
    IN  before # after

\* r"\bBETWEEN\b"
MatchBetween(s, i) ==
    BoundaryAt(s, i) /\ StartsAtI(s, i, kwBetween) /\ BoundaryAt(s, i + 7)
\* the operator op after date standing as a word of its own
MatchDateTokenOp(s, i, op) ==
    /\ BoundaryAt(s, i)
    /\ StartsAtI(s, i, kwDate) /\ StartsAt(s, SkipSpaces(s, i + 4), op)
\* r"date\s*" followed by the operator op
MatchDateOp(s, i, op) ==
    StartsAtI(s, i, kwDate) /\ StartsAt(s, SkipSpaces(s, i + 4), op)
\* r"GROUP\s+BY\s+date" / r"ORDER\s+BY\s+date" with kw the first keyword
MatchByDate(s, i, kw) ==
    /\ StartsAtI(s, i, kw)
    /\ LET j == SkipSpaces(s, i + Len(kw))
       IN  /\ j > i + Len(kw)
           /\ StartsAtI(s, j, kwBy)
           /\ LET k == SkipSpaces(s, j + 2)
              IN  k > j + 2 /\ StartsAtI(s, k, kwDate)

is_date_range_query(s) ==
    LET sql_upper == UpperStr(s)
    IN  \E i \in 1..Len(sql_upper) :
          \/ MatchBetween(sql_upper, i)
          \/ MatchDateOp(sql_upper, i, <<">", "=">>)
          \/ MatchDateOp(sql_upper, i, <<"<", "=">>)
          \/ MatchDateOp(sql_upper, i, <<">">>)
          \/ MatchDateOp(sql_upper, i, <<"<">>)
          \/ MatchByDate(sql_upper, i, kwGroup)
          \/ MatchByDate(sql_upper, i, kwOrder)

\* float(str(v)) succeeds: the cell texts of the model that Python parses
FloatTexts == {"100", "2.5", "-7", "nan"}
ParsesAsFloat(v) == v \in FloatTexts

\* every column after the first, numeric or not
YColsAll(columns, rows) == Tail(columns)
\* y_cols of generate_chart: the columns after the first whose first-row value
\* parses as a float
YCols(columns, rows) ==
    SelectSeq(Tail(columns), LAMBDA col : ParsesAsFloat(Get(rows[1], col, "")))

\* generate_chart gets past its early returns (lines 60-78)
Chartable(columns, rows) ==
    /\ matplotlib
    /\ rows # <<>> /\ Len(columns) >= 2
    /\ YCols(columns, rows) # <<>>

\* a disposer without the existence test and without the except clause
cleanup_chart_unguarded(path, f) ==
    IF path = <<>> THEN {[after |-> f, swallowed |-> FALSE, raised |-> FALSE]}
    ELSE IF f = "present"
    THEN {[after |-> "removed", swallowed |-> FALSE, raised |-> FALSE],
          [after |-> "present", swallowed |-> FALSE, raised |-> TRUE]}
    ELSE {[after |-> f, swallowed |-> FALSE, raised |-> TRUE]}
\* cleanup_chart(path) on a file in state f ("absent", "present" or
\* "removed"): the possible outcomes. os.remove runs only for a non-empty
\* path of a file that exists, and its OSError is swallowed
cleanup_chart(path, f) ==
    IF path # <<>> /\ f = "present"
    THEN {[after |-> "removed", swallowed |-> FALSE, raised |-> FALSE],
          [after |-> "present", swallowed |-> TRUE,  raised |-> FALSE]}
    ELSE {[after |-> f, swallowed |-> FALSE, raised |-> FALSE]}

(***************************************************************************)
(* The inputs of the pipeline specification.                               *)
(***************************************************************************)
Req == 1..NumReq

NoExc    == "none"
NoSql    == <<>>
NoPath   == <<>>
NoResult == [columns |-> <<>>, rows |-> <<>>, total |-> -1]
NoTable  == [kind |-> "none"]
NoRet    == [kind |-> "none"]

\* the payloads a slash command may carry: no text, an empty text, a text of
\* white space only, and a question with white space around it
NoBody == [has_text |-> FALSE, text |-> <<>>]
Bodies == { NoBody,
            [has_text |-> TRUE, text |-> <<>>],
            [has_text |-> TRUE, text |-> <<" ", Newline>>],
            [has_text |-> TRUE, text |-> <<" ", "h", "i", "?", " ">>] }

\* (body.get("text") or "").strip()
QuestionOf(b) == Strip(IF b.has_text THEN b.text ELSE <<>>)

\* what the completion call may give back
OutPlain == <<"S","E","L","E","C","T"," ","x",";">>
OutDated == <<"s","e","l","e","c","t"," ","x"," ",
              "O","R","D","E","R"," ","B","Y"," ","d","a","t","e",";">>
OutProse == <<"n","o">>
SampleOutputs == {OutPlain, OutDated, OutProse}
\* the completion call, or building its client, raised
GenerationErrors == {"EnvironmentError", "CompletionError"}

\* what the store may give back
RowsNone    == <<>>
RowsNumeric == << <<<<"date", "2025-09-01">>, <<"revenue", "100">>>> >>
RowsText    == << <<<<"region", "North">>, <<"category", "Grocery">>>> >>
SampleRows  == {RowsNone, RowsNumeric, RowsText}

Stages == <<"Synthesizing", "Executing", "Formatting", "DeliveredPrimary",
            "Classifying", "Rendering", "DeliveredSecondary", "Disposed">>

NewPoolObject == [created |-> FALSE, idle |-> 0, used |-> {}]

\* no request has been processed, no pool exists, the store holds no change
Fresh ==
    /\ body = [w \in Req |-> NoBody]
    /\ question = [w \in Req |-> <<>>]
    /\ sql = [w \in Req |-> NoSql]
    /\ exc = [w \in Req |-> NoExc]
    /\ result = [w \in Req |-> NoResult]
    /\ table = [w \in Req |-> NoTable]
    /\ sent = [w \in Req |-> <<>>]
    /\ logs = [w \in Req |-> <<>>]
    /\ started = [w \in Req |-> <<>>]
    /\ succeeded = [w \in Req |-> {}]
    /\ chart_path = [w \in Req |-> NoPath]
    /\ files = [w \in Req |-> "absent"]
    /\ removals = [w \in Req |-> 0]
    /\ connection = [w \in Req |-> 0]
    /\ txn = [w \in Req |-> "idle"]
    /\ pending = [w \in Req |-> FALSE]
    /\ committed = FALSE
    /\ _pool = 0
    /\ pools = [p \in Req |-> NewPoolObject]

Init ==
    /\ Fresh
    /\ pc = [w \in Req |-> "idle"]
    /\ matplotlib \in BOOLEAN
    /\ arg = <<>>
    /\ ret = NoRet

isoVars   == <<arg, ret>>
dbVars    == <<connection, txn, pending, committed, _pool, pools>>
chartVars == <<chart_path, files, removals>>
dataVars  == <<body, question, sql, result, table>>

Begin(w, stage) == started' = [started EXCEPT ![w] = Append(@, stage)]
Log(w, record)  == logs' = [logs EXCEPT ![w] = Append(@, record)]
Send(w, msg)    == sent' = [sent EXCEPT ![w] = Append(@, msg)]
Goto(w, loc)    == pc' = [pc EXCEPT ![w] = loc]

(***************************************************************************)
(* app.py: handle_ask_data, the entry point.                               *)
(***************************************************************************)
\* an entry point that accepts a command only while no worker is running
ReceiveCommandSerial(w) ==
    /\ pc[w] = "idle"
    /\ \A v \in Req : pc[v] \in {"idle", "acked", "spawn", "done", "absent"}
    /\ \E b \in Bodies :
          /\ body' = [body EXCEPT ![w] = b]
          /\ question' = [question EXCEPT ![w] = QuestionOf(b)]
    /\ sent' = [sent EXCEPT ![w] = Append(@, [kind |-> "ack"])]
    /\ pc' = [pc EXCEPT ![w] = "acked"]
    /\ UNCHANGED <<sql, exc, result, table, logs, started, succeeded,
                   chart_path, files, removals, connection, txn, pending,
                   committed, _pool, pools, matplotlib, arg, ret>>
\* ack() and the reading of the command text (lines 51-55)
ReceiveCommand(w) ==
    /\ pc[w] = "idle"
    /\ \E b \in Bodies :
          /\ body' = [body EXCEPT ![w] = b]
          /\ question' = [question EXCEPT ![w] = QuestionOf(b)]
    /\ Send(w, [kind |-> "ack"])
    /\ Goto(w, "acked")
    /\ UNCHANGED <<sql, exc, result, table, logs, started, succeeded,
                   chartVars, dbVars, matplotlib, isoVars>>

\* an entry point that starts the worker for an empty question too
UsageHintThenWorker(w) ==
    /\ pc[w] = "acked" /\ question[w] = <<>>
    /\ sent' = [sent EXCEPT ![w] = Append(@, [kind |-> "usage"])]
    /\ pc' = [pc EXCEPT ![w] = "spawn"]
    /\ UNCHANGED <<body, question, sql, result, table, exc, logs, started,
                   succeeded, chart_path, files, removals, connection, txn,
                   pending, committed, _pool, pools, matplotlib, arg, ret>>
\* the empty question: the usage hint, and no worker (lines 57-62); an error
\* raised by respond() in the listener reaches global_error_handler
UsageHint(w) ==
    /\ pc[w] = "acked" /\ question[w] = <<>>
    /\ \/ Send(w, [kind |-> "usage"]) /\ UNCHANGED logs
       \/ Log(w, "error:Unhandled error") /\ UNCHANGED sent
    /\ Goto(w, "done")
    /\ UNCHANGED <<dataVars, exc, started, succeeded, chartVars, dbVars,
                   matplotlib, isoVars>>

\* the provisional notice (lines 65-70)
Working(w) ==
    /\ pc[w] = "acked" /\ question[w] # <<>>
    /\ \/ /\ Send(w, [kind |-> "working"])
          /\ Log(w, "info:User asked")
          /\ Goto(w, "spawn")
       \/ /\ Log(w, "error:Unhandled error")
          /\ Goto(w, "done")
          /\ UNCHANGED sent
    /\ UNCHANGED <<dataVars, exc, started, succeeded, chartVars, dbVars,
                   matplotlib, isoVars>>

\* Thread(target=process, daemon=True).start() (line 147)
Spawn(w) ==
    /\ pc[w] = "spawn"
    /\ Goto(w, "synth")
    /\ UNCHANGED <<dataVars, exc, sent, logs, started, succeeded, chartVars,
                   dbVars, matplotlib, isoVars>>

(***************************************************************************)
(* app.py: process, the worker. Stage 1, synthesis.                        *)
(***************************************************************************)
\* sql = question_to_sql(question) (lines 75-77)
Synthesize(w) ==
    /\ pc[w] = "synth"
    /\ Begin(w, "Synthesizing")
    /\ \/ \E raw \in SampleOutputs :
            LET out == question_to_sql(raw)
            IN  IF out.kind = "ok"
                THEN /\ sql' = [sql EXCEPT ![w] = out.sql]
                     /\ succeeded' = [succeeded EXCEPT ![w] = @ \cup {"Synthesizing"}]
                     /\ Log(w, "info:Generated SQL")
                     /\ Goto(w, "get_pool")
                     /\ UNCHANGED exc
                ELSE /\ exc' = [exc EXCEPT ![w] = out.kind]
                     /\ Goto(w, "synth_err")
                     /\ UNCHANGED <<sql, succeeded, logs>>
       \/ \E e \in GenerationErrors :
            /\ exc' = [exc EXCEPT ![w] = e]
            /\ Goto(w, "synth_err")
            /\ UNCHANGED <<sql, succeeded, logs>>
    /\ UNCHANGED <<body, question, result, table, sent, chartVars, dbVars,
                   matplotlib, isoVars>>

\* the message of the synthesis handler (line 80)
SynthErrorMessage(w) ==
    [kind |-> "error", marker |-> ":x: Failed to generate SQL.",
     detail |-> exc[w], sql |-> NoSql]

\* except Exception: log, respond, return (lines 78-81)
SynthFailed(w) ==
    /\ pc[w] = "synth_err"
    /\ Log(w, "error:LLM error")
    /\ \/ Send(w, SynthErrorMessage(w)) /\ exc' = [exc EXCEPT ![w] = NoExc]
       \/ exc' = [exc EXCEPT ![w] = "RespondError"] /\ UNCHANGED sent
    /\ Goto(w, "done")
    /\ UNCHANGED <<dataVars, started, succeeded, chartVars, dbVars,
                   matplotlib, isoVars>>

(***************************************************************************)
(* db.py: execute_query, stage 2 of process (app.py lines 84-85).          *)
(***************************************************************************)
\* _get_pool(): if _pool is None (lines 31-32)
GetPoolCheck(w) ==
    /\ pc[w] = "get_pool"
    /\ Begin(w, "Executing")
    /\ Goto(w, IF _pool = 0 THEN "new_pool" ELSE "getconn")
    /\ UNCHANGED <<dataVars, exc, sent, logs, succeeded, chartVars, dbVars,
                   matplotlib, isoVars>>

\* _pool = SimpleConnectionPool(minconn=1, maxconn=5, ...), or the
\* ConnectionError raised for an OperationalError (lines 33-40)
NewPool(w) ==
    /\ pc[w] = "new_pool"
    /\ \/ /\ pools' = [pools EXCEPT ![w] =
                         [created |-> TRUE, idle |-> minconn, used |-> {}]]
          /\ _pool' = w
          /\ Goto(w, "getconn")
          /\ UNCHANGED exc
       \/ /\ exc' = [exc EXCEPT ![w] = "ConnectionError"]
          /\ Goto(w, "exec_err")
          /\ UNCHANGED <<_pool, pools>>
    /\ UNCHANGED <<dataVars, sent, logs, started, succeeded, chartVars,
                   connection, txn, pending, committed, matplotlib, isoVars>>

\* connection = _get_pool().getconn() (lines 41, 60): an idle connection of
\* the current pool, else a new one while fewer than maxconn are in use
GetConn(w) ==
    /\ pc[w] = "getconn"
    /\ LET p == _pool
           take == /\ connection' = [connection EXCEPT ![w] = p]
                   /\ txn' = [txn EXCEPT ![w] = "idle"]
                   /\ Goto(w, "execute")
                   /\ UNCHANGED exc
           fail(e) == /\ exc' = [exc EXCEPT ![w] = e]
                      /\ Goto(w, "exec_err")
                      /\ UNCHANGED <<connection, txn, pools>>
       IN  IF pools[p].idle > 0
           THEN /\ pools' = [pools EXCEPT ![p].idle = @ - 1, ![p].used = @ \cup {w}]
                /\ take
           ELSE IF Cardinality(pools[p].used) = maxconn
           THEN fail("PoolError")
           ELSE \/ /\ pools' = [pools EXCEPT ![p].used = @ \cup {w}]
                   /\ take
                \/ fail("OperationalError")
    /\ UNCHANGED <<dataVars, sent, logs, started, succeeded, chartVars,
                   pending, committed, _pool, matplotlib, isoVars>>

\* cur.execute(sql) ... columns = ... inside the try (lines 62-67)
Execute(w) ==
    /\ pc[w] = "execute"
    /\ \/ \E all_rows \in SampleRows, mutates \in BOOLEAN :
            /\ result' = [result EXCEPT ![w] = ExecuteResult(all_rows)]
            /\ txn' = [txn EXCEPT ![w] = "intrans"]
            /\ pending' = [pending EXCEPT ![w] = mutates]
            /\ Goto(w, "rollback")
            /\ UNCHANGED exc
       \/ \* cur.execute raised
          /\ exc' = [exc EXCEPT ![w] = "psycopg2.Error"]
          /\ txn' = [txn EXCEPT ![w] = "inerror"]
          /\ Goto(w, "putconn")
          /\ UNCHANGED <<result, pending>>
       \/ \* the statement ran and fetchall raised
          \E mutates \in BOOLEAN :
            /\ exc' = [exc EXCEPT ![w] = "psycopg2.ProgrammingError"]
            /\ txn' = [txn EXCEPT ![w] = "intrans"]
            /\ pending' = [pending EXCEPT ![w] = mutates]
            /\ Goto(w, "putconn")
            /\ UNCHANGED result
    /\ UNCHANGED <<body, question, sql, table, sent, logs, started, succeeded,
                   chartVars, connection, committed, _pool, pools, matplotlib,
                   isoVars>>

\* connection.rollback() (line 68)
Rollback(w) ==
    /\ pc[w] = "rollback"
    /\ txn' = [txn EXCEPT ![w] = "idle"]
    /\ pending' = [pending EXCEPT ![w] = FALSE]
    /\ Goto(w, "putconn")
    /\ UNCHANGED <<dataVars, exc, sent, logs, started, succeeded, chartVars,
                   connection, committed, _pool, pools, matplotlib, isoVars>>

\* finally: _get_pool().putconn(connection) (lines 70-71). The pool refuses a
\* connection it did not hand out; one it keeps it rolls back unless idle, and
\* one beyond minconn it closes.
PutConn(w) ==
    /\ pc[w] = "putconn"
    /\ LET p == _pool
       IN  IF w \notin pools[p].used
           THEN /\ exc' = [exc EXCEPT ![w] = "PoolError"]
                /\ Goto(w, "exec_err")
                /\ UNCHANGED <<connection, txn, pending, pools, succeeded>>
           ELSE /\ pools' = [pools EXCEPT
                       ![p].idle = IF @ < minconn THEN @ + 1 ELSE @,
                       ![p].used = @ \ {w}]
                /\ connection' = [connection EXCEPT ![w] = 0]
                /\ txn' = [txn EXCEPT ![w] = "idle"]
                /\ pending' = [pending EXCEPT ![w] = FALSE]
                /\ IF exc[w] = NoExc
                   THEN /\ succeeded' = [succeeded EXCEPT ![w] = @ \cup {"Executing"}]
                        /\ Goto(w, "format")
                   ELSE /\ Goto(w, "exec_err")
                        /\ UNCHANGED succeeded
                /\ UNCHANGED exc
    /\ UNCHANGED <<dataVars, sent, logs, started, chartVars, committed, _pool,
                   matplotlib, isoVars>>

\* an execution message without the attempted SQL
ExecErrorMessageNoSql(w) ==
    [kind |-> "error", marker |-> ":x: Query execution failed.",
     detail |-> exc[w], sql |-> NoSql]
\* the message of the execution handler (lines 88-91)
ExecErrorMessage(w) ==
    [kind |-> "error", marker |-> ":x: Query execution failed.",
     detail |-> exc[w], sql |-> sql[w]]

\* except Exception: log, respond, return (app.py lines 86-92)
ExecFailed(w) ==
    /\ pc[w] = "exec_err"
    /\ Log(w, "error:DB error")
    /\ \/ Send(w, ExecErrorMessage(w)) /\ exc' = [exc EXCEPT ![w] = NoExc]
       \/ exc' = [exc EXCEPT ![w] = "RespondError"] /\ UNCHANGED sent
    /\ Goto(w, "done")
    /\ UNCHANGED <<dataVars, started, succeeded, chartVars, dbVars,
                   matplotlib, isoVars>>

(***************************************************************************)
(* app.py: process, stages 3 to 5.                                         *)
(***************************************************************************)
\* a worker that classifies before it has delivered the primary response
FormatThenClassify(w) ==
    /\ pc[w] = "format"
    /\ Begin(w, "Formatting")
    /\ table' = [table EXCEPT ![w] =
           format_slack_table(result[w].columns, result[w].rows, result[w].total)]
    /\ succeeded' = [succeeded EXCEPT ![w] = @ \cup {"Formatting"}]
    /\ Goto(w, "classify")
    /\ UNCHANGED <<body, question, sql, result, exc, sent, logs, chartVars,
                   dbVars, matplotlib, isoVars>>
\* table = format_slack_table(columns, rows, total) and the blocks (lines 95-120)
Format(w) ==
    /\ pc[w] = "format"
    /\ Begin(w, "Formatting")
    /\ table' = [table EXCEPT ![w] =
           format_slack_table(result[w].columns, result[w].rows, result[w].total)]
    /\ succeeded' = [succeeded EXCEPT ![w] = @ \cup {"Formatting"}]
    /\ Goto(w, "deliver")
    /\ UNCHANGED <<body, question, sql, result, exc, sent, logs, chartVars,
                   dbVars, matplotlib, isoVars>>

PrimaryResponse(w) ==
    [kind |-> "primary", question |-> question[w], sql |-> sql[w],
     table |-> table[w]]

\* respond(blocks=blocks) (lines 122-123); nothing catches what it raises
Deliver(w) ==
    /\ pc[w] = "deliver"
    /\ Begin(w, "DeliveredPrimary")
    /\ \/ /\ Send(w, PrimaryResponse(w))
          /\ Log(w, "info:Replied")
          /\ succeeded' = [succeeded EXCEPT ![w] = @ \cup {"DeliveredPrimary"}]
          /\ Goto(w, "classify")
          /\ UNCHANGED exc
       \/ /\ exc' = [exc EXCEPT ![w] = "RespondError"]
          /\ Goto(w, "done")
          /\ UNCHANGED <<sent, logs, succeeded>>
    /\ UNCHANGED <<dataVars, chartVars, dbVars, matplotlib, isoVars>>

\* a worker that renders for every date-range query, rows or not
ClassifyIgnoringRows(w) ==
    /\ pc[w] = "classify"
    /\ started' = [started EXCEPT ![w] = Append(@, "Classifying")]
    /\ succeeded' = [succeeded EXCEPT ![w] = @ \cup {"Classifying"}]
    /\ pc' = [pc EXCEPT ![w] = IF is_date_range_query(sql[w])
                                THEN "render" ELSE "done"]
    /\ UNCHANGED <<body, question, sql, result, table, exc, sent, logs,
                   chart_path, files, removals, connection, txn, pending,
                   committed, _pool, pools, matplotlib, arg, ret>>
\* if is_date_range_query(sql) and rows: chart_path = None (lines 126-127)
Classify(w) ==
    /\ pc[w] = "classify"
    /\ Begin(w, "Classifying")
    /\ succeeded' = [succeeded EXCEPT ![w] = @ \cup {"Classifying"}]
    /\ Goto(w, IF is_date_range_query(sql[w]) /\ result[w].rows # <<>>
               THEN "render" ELSE "done")
    /\ UNCHANGED <<dataVars, exc, sent, logs, chartVars, dbVars, matplotlib,
                   isoVars>>

\* the file NamedTemporaryFile creates for request w
TmpName(w) == <<"tmp.png", w>>

\* a chart handler that tells the user
SentAfterChartErrorTold(w) ==
    Append(sent[w], [kind |-> "error", marker |-> ":x: Chart failed.",
                     detail |-> "chart", sql |-> sql[w]])
\* what the user is sent when the chart step raises: nothing (lines 141-142)
SentAfterChartError(w) == sent[w]

\* except Exception: logger.warning; finally: chart_path is still None
ChartFailed(w) ==
    /\ Log(w, "warning:Chart upload failed (non-critical)")
    /\ sent' = [sent EXCEPT ![w] = SentAfterChartError(w)]

\* chart_path = generate_chart(...) up to the creation of the temporary file
\* (app.py line 129, chart.py lines 60-147)
Render(w) ==
    /\ pc[w] = "render"
    /\ Begin(w, "Rendering")
    /\ IF ~Chartable(result[w].columns, result[w].rows)
       THEN \* returned None: "Chart skipped" (line 140), nothing to dispose
            /\ Log(w, "info:Chart skipped")
            /\ succeeded' = [succeeded EXCEPT ![w] = @ \cup {"Rendering"}]
            /\ Goto(w, "done")
            /\ UNCHANGED <<sent, files>>
       ELSE \/ \* plotting or NamedTemporaryFile raised
               /\ ChartFailed(w)
               /\ Goto(w, "done")
               /\ UNCHANGED <<succeeded, files>>
            \/ /\ files' = [files EXCEPT ![w] = "present"]
               /\ Goto(w, "savefig")
               /\ UNCHANGED <<sent, logs, succeeded>>
    /\ UNCHANGED <<dataVars, exc, chart_path, removals, dbVars, matplotlib,
                   isoVars>>

\* plt.savefig(tmp.name, ...); plt.close(fig); return tmp.name (chart.py lines
\* 148-151): the path reaches chart_path only when generate_chart returns
Savefig(w) ==
    /\ pc[w] = "savefig"
    /\ \/ /\ chart_path' = [chart_path EXCEPT ![w] = TmpName(w)]
          /\ succeeded' = [succeeded EXCEPT ![w] = @ \cup {"Rendering"}]
          /\ Goto(w, "upload")
          /\ UNCHANGED <<sent, logs>>
       \/ \* savefig raised: except, then finally with chart_path None
          /\ ChartFailed(w)
          /\ Goto(w, "done")
          /\ UNCHANGED <<chart_path, succeeded>>
    /\ UNCHANGED <<dataVars, exc, started, files, removals, dbVars, matplotlib,
                   isoVars>>

\* client.files_upload_v2(...) (app.py lines 130-138, 141-142)
Upload(w) ==
    /\ pc[w] = "upload"
    /\ Begin(w, "DeliveredSecondary")
    /\ \/ /\ Send(w, [kind |-> "chart", file |-> chart_path[w]])
          /\ Log(w, "info:Chart uploaded")
          /\ succeeded' = [succeeded EXCEPT ![w] = @ \cup {"DeliveredSecondary"}]
       \/ /\ ChartFailed(w)
          /\ UNCHANGED succeeded
    /\ Goto(w, "cleanup")
    /\ UNCHANGED <<dataVars, exc, chartVars, dbVars, matplotlib, isoVars>>

\* finally: if chart_path: cleanup_chart(chart_path) (app.py lines 143-145,
\* chart.py lines 154-160); an OSError of os.remove is swallowed
Cleanup(w) ==
    /\ pc[w] = "cleanup"
    /\ Begin(w, "Disposed")
    /\ IF chart_path[w] # NoPath
       THEN \E o \in cleanup_chart(chart_path[w], files[w]) :
               /\ files' = [files EXCEPT ![w] = o.after]
               /\ removals' = [removals EXCEPT ![w] =
                                  IF o.after # files[w] THEN @ + 1 ELSE @]
       ELSE UNCHANGED <<files, removals>>
    /\ succeeded' = [succeeded EXCEPT ![w] = @ \cup {"Disposed"}]
    /\ Goto(w, "done")
    /\ UNCHANGED <<dataVars, exc, sent, logs, chart_path, dbVars, matplotlib,
                   isoVars>>

Next ==
    \E w \in Req :
        \/ ReceiveCommand(w)
        \/ UsageHint(w)
        \/ Working(w)
        \/ Spawn(w)
        \/ Synthesize(w)
        \/ SynthFailed(w)
        \/ GetPoolCheck(w)
        \/ NewPool(w)
        \/ GetConn(w)
        \/ Execute(w)
        \/ Rollback(w)
        \/ PutConn(w)
        \/ ExecFailed(w)
        \/ Format(w)
        \/ Deliver(w)
        \/ Classify(w)
        \/ Render(w)
        \/ Savefig(w)
        \/ Upload(w)
        \/ Cleanup(w)

Spec == Init /\ [][Next]_vars

\* the pipeline when only the first NumActive requests ever arrive
InitActive ==
    /\ Fresh
    /\ pc = [w \in Req |-> IF w <= NumActive THEN "idle" ELSE "absent"]
    /\ matplotlib \in BOOLEAN
    /\ arg = <<>>
    /\ ret = NoRet

SpecActive == InitActive /\ [][Next]_vars

(***************************************************************************)
(* The connection pool under more workers than maxconn: one more request   *)
(* than the pool has connections, each accepted and synthesized, and none  *)
(* of the queries returning yet. Workers 1 and 2 made the first use at the *)
(* same time and both found _pool to be None; worker 1 has since created   *)
(* its pool and taken a connection from it, worker 2 is about to create    *)
(* its own; the other workers are at their call of execute_query.          *)
(***************************************************************************)
PoolWorkers == 1..(maxconn + 1)

\* where worker w is when the specification starts
PoolStart(w) ==
    IF w = 1 THEN "execute" ELSE IF w = 2 THEN "new_pool" ELSE "get_pool"

InitPool ==
    /\ pc = [w \in PoolWorkers |-> PoolStart(w)]
    /\ body = [w \in PoolWorkers |-> [has_text |-> TRUE, text |-> <<"h", "i", "?">>]]
    /\ question = [w \in PoolWorkers |-> <<"h", "i", "?">>]
    /\ sql = [w \in PoolWorkers |-> OutPlain]
    /\ exc = [w \in PoolWorkers |-> NoExc]
    /\ result = [w \in PoolWorkers |-> NoResult]
    /\ table = [w \in PoolWorkers |-> NoTable]
    /\ sent = [w \in PoolWorkers |-> <<[kind |-> "ack"], [kind |-> "working"]>>]
    /\ logs = [w \in PoolWorkers |-> <<"info:User asked", "info:Generated SQL">>]
    /\ started = [w \in PoolWorkers |->
                    IF w <= 2 THEN <<"Synthesizing", "Executing">>
                    ELSE <<"Synthesizing">>]
    /\ succeeded = [w \in PoolWorkers |-> {"Synthesizing"}]
    /\ chart_path = [w \in PoolWorkers |-> NoPath]
    /\ files = [w \in PoolWorkers |-> "absent"]
    /\ removals = [w \in PoolWorkers |-> 0]
    /\ connection = [w \in PoolWorkers |-> IF w = 1 THEN 1 ELSE 0]
    /\ txn = [w \in PoolWorkers |-> "idle"]
    /\ pending = [w \in PoolWorkers |-> FALSE]
    /\ committed = FALSE
    /\ _pool = 1
    /\ pools = [p \in PoolWorkers |->
                  IF p = 1 THEN [created |-> TRUE, idle |-> 0, used |-> {1}]
                  ELSE NewPoolObject]
    /\ matplotlib = TRUE
    /\ arg = <<>>
    /\ ret = NoRet

NextPool ==
    \E w \in PoolWorkers :
        \/ GetPoolCheck(w)
        \/ NewPool(w)
        \/ GetConn(w)

SpecPool == InitPool /\ [][NextPool]_vars

(***************************************************************************)
(* question_to_sql in isolation, over every model output assembled from at *)
(* most MaxPieces of the pieces below.                                     *)
(***************************************************************************)
Pieces == { <<"S","e","L","e","c","T">>,
            <<LongS,"e","l","e","c","t">>,
            <<" ">>, <<";">>, <<"x">>, <<Newline>>, kwFence, kwSql }

RECURSIVE Assembled(_)
Assembled(n) ==
    IF n = 0 THEN {<<>>}
    ELSE Assembled(n - 1) \cup {p \o t : p \in Pieces, t \in Assembled(n - 1)}

ModelOutputs == Assembled(MaxPieces)

pipelineVars == <<pc, body, question, sql, exc, result, table, sent, logs, started,
                  succeeded, chart_path, files, removals, connection, txn,
                  pending, committed, _pool, pools, matplotlib>>

InitSql ==
    /\ Fresh
    /\ pc = [w \in Req |-> "idle"]
    /\ matplotlib = TRUE
    /\ arg \in ModelOutputs
    /\ ret = NoRet

\* raw_output = response.choices[0].message.content ... return sql
\* (llm.py lines 79-87)
CallQuestionToSql ==
    /\ ret = NoRet
    /\ ret' = question_to_sql(arg)
    /\ UNCHANGED <<pipelineVars, arg>>

NextSql == CallQuestionToSql

SpecSql == InitSql /\ [][NextSql]_vars

(***************************************************************************)
(* execute_query and format_slack_table in isolation, over every result of *)
(* at most PREVIEW_ROW_LIMIT + ExtraRows rows.                             *)
(***************************************************************************)
RowVariants == { <<<<"date", "2025-09-01">>, <<"revenue", "100">>>>,
                 <<<<"date", "2025-09-02">>, <<"revenue", "n/a">>>> }

MaxRows == PREVIEW_ROW_LIMIT + ExtraRows

StoreResults == UNION {[1..n -> RowVariants] : n \in 0..MaxRows}

InitExec ==
    /\ Fresh
    /\ pc = [w \in Req |-> "idle"]
    /\ matplotlib = TRUE
    /\ arg \in StoreResults
    /\ ret = NoRet

\* all_rows = cur.fetchall() ... return columns, preview_rows, total_count
\* (db.py lines 64-69), then format_slack_table on what was returned
CallExecuteQuery ==
    /\ ret = NoRet
    /\ LET r == ExecuteResult(arg)
       IN  ret' = [kind  |-> "result",
                   value |-> r,
                   table |-> format_slack_table(r.columns, r.rows, r.total)]
    /\ UNCHANGED <<pipelineVars, arg>>

NextExec == CallExecuteQuery

SpecExec == InitExec /\ [][NextExec]_vars

(***************************************************************************)
(* format_slack_table in isolation, on preview rows and a total chosen     *)
(* independently of them, and composed with execute_query.                 *)
(***************************************************************************)
\* the totals tried with the preview rows r: zero, around len(r), beyond all
Totals(r) ==
    {t \in 0..(MaxRows + 1) :
        t = 0 \/ t = MaxRows + 1 \/ (t - Len(r)) \in -1..1}

InitFormat ==
    /\ Fresh
    /\ pc = [w \in Req |-> "idle"]
    /\ matplotlib = TRUE
    /\ \E r \in StoreResults : \E t \in Totals(r) :
          arg = [rows |-> r, total |-> t]
    /\ ret = NoRet

\* format_slack_table(columns, rows, total) with the columns of the first row
CallFormatSlackTable ==
    /\ ret = NoRet
    /\ LET columns == IF arg.rows # <<>> THEN Keys(arg.rows[1]) ELSE <<>>
       IN  ret' = [kind  |-> "formatted",
                   table |-> format_slack_table(columns, arg.rows, arg.total)]
    /\ UNCHANGED <<pipelineVars, arg>>

\* columns, rows, total = execute_query(sql) for a store that returns
\* arg.rows, then table = format_slack_table(columns, rows, total)
\* (app.py lines 85 and 95)
CallExecuteThenFormat ==
    /\ ret = NoRet
    /\ LET r == ExecuteResult(arg.rows)
       IN  ret' = [kind  |-> "result",
                   value |-> r,
                   table |-> format_slack_table(r.columns, r.rows, r.total)]
    /\ UNCHANGED <<pipelineVars, arg>>

NextFormat == CallFormatSlackTable \/ CallExecuteThenFormat

SpecFormat == InitFormat /\ [][NextFormat]_vars

(***************************************************************************)
(* is_date_range_query in isolation, over every SQL text assembled from at *)
(* most MaxSqlPieces of the pieces below.                                  *)
(***************************************************************************)
SqlPieces == { <<"d","A","t","e">>,
               <<"B","e","T","W","E","E","N">>,
               <<"G","r","O","U","P"," ","b","Y">>,
               <<"o","r","d","e","r",Newline,"B","y">>,
               <<" ">>, <<">">>, <<"<">>, <<"=">>, <<"x">>, <<"_">> }

RECURSIVE AssembledSql(_)
AssembledSql(n) ==
    IF n = 0 THEN {<<>>}
    ELSE LET shorter == AssembledSql(n - 1)
         IN  shorter \cup {p \o t : p \in SqlPieces, t \in shorter}

SqlTexts == AssembledSql(MaxSqlPieces)

InitClassify ==
    /\ Fresh
    /\ pc = [w \in Req |-> "idle"]
    /\ matplotlib = TRUE
    /\ arg \in SqlTexts
    /\ ret = NoRet

\* is_date_range_query(sql) (chart.py lines 26-41)
CallIsDateRangeQuery ==
    /\ ret = NoRet
    /\ ret' = [kind |-> "bool", value |-> is_date_range_query(arg)]
    /\ UNCHANGED <<pipelineVars, arg>>

NextClassify == CallIsDateRangeQuery

SpecClassify == InitClassify /\ [][NextClassify]_vars

(***************************************************************************)
(* generate_chart in isolation, with and without matplotlib, over column   *)
(* lists and at most MaxChartRows rows.                                    *)
(***************************************************************************)
ChartColumns == { <<>>, <<"date">>, <<"date", "revenue">>,
                  <<"date", "revenue", "units">>, <<"date", "region">>,
                  <<"date", "units", "revenue">> }

ChartRowVariants ==
    { <<<<"date", "2025-09-01">>, <<"revenue", v>>, <<"units", u>>>> :
        v \in {"100", "n/a"}, u \in {"2.5", ""} }

ChartRows == UNION {[1..n -> ChartRowVariants] : n \in 0..MaxChartRows}

InitChart ==
    /\ Fresh
    /\ pc = [w \in Req |-> "idle"]
    /\ matplotlib \in BOOLEAN
    /\ \E c \in ChartColumns, r \in ChartRows : arg = [columns |-> c, rows |-> r]
    /\ ret = NoRet

\* generate_chart(columns, rows, question): None from the early returns, the
\* path of the file it wrote, or an exception of the plotting calls before or
\* after NamedTemporaryFile created the file
CallGenerateChart ==
    /\ ret = NoRet
    /\ IF ~Chartable(arg.columns, arg.rows)
       THEN /\ ret' = [kind |-> "returned", path |-> NoPath, series |-> <<>>]
            /\ UNCHANGED files
       ELSE \/ /\ ret' = [kind |-> "raised", path |-> NoPath,
                           series |-> YCols(arg.columns, arg.rows)]
               /\ UNCHANGED files
            \/ /\ ret' = [kind |-> "raised", path |-> NoPath,
                           series |-> YCols(arg.columns, arg.rows)]
               /\ files' = [files EXCEPT ![1] = "present"]
            \/ /\ ret' = [kind |-> "returned", path |-> TmpName(1),
                           series |-> YCols(arg.columns, arg.rows)]
               /\ files' = [files EXCEPT ![1] = "present"]
    /\ UNCHANGED <<pc, body, question, sql, exc, result, table, sent, logs,
                   started, succeeded, chart_path, removals, dbVars,
                   matplotlib, arg>>

NextChart == CallGenerateChart

SpecChart == InitChart /\ [][NextChart]_vars

(***************************************************************************)
(* cleanup_chart in isolation: up to MaxCalls calls, on the empty path and *)
(* on the paths of files that were never created, exist, or are gone.      *)
(***************************************************************************)
InitCleanup ==
    /\ Fresh
    /\ pc = [w \in Req |-> "idle"]
    /\ matplotlib = TRUE
    /\ arg = <<>>
    /\ ret = NoRet

\* tempfile.NamedTemporaryFile(suffix=".png", delete=False) (chart.py 147)
CallNamedTemporaryFile(w) ==
    /\ files[w] = "absent"
    /\ files' = [files EXCEPT ![w] = "present"]
    /\ UNCHANGED <<pc, body, question, sql, exc, result, table, sent, logs,
                   started, succeeded, chart_path, removals, dbVars,
                   matplotlib, isoVars>>

Calls == IF ret = NoRet THEN 0 ELSE ret.calls

\* cleanup_chart(path) with path the empty string or the path of w's file
CallCleanupChart(w, path) ==
    /\ Calls < MaxCalls
    /\ \E o \in cleanup_chart(path, files[w]) :
          /\ files' = [files EXCEPT ![w] = o.after]
          /\ removals' = [removals EXCEPT ![w] =
                             IF o.after # files[w] THEN @ + 1 ELSE @]
          /\ ret' = [kind |-> "cleaned", calls |-> Calls + 1, path |-> path,
                     before |-> files[w], after |-> o.after,
                     swallowed |-> o.swallowed, raised |-> o.raised]
    /\ arg' = path
    /\ UNCHANGED <<pc, body, question, sql, exc, result, table, sent, logs,
                   started, succeeded, chart_path, dbVars, matplotlib>>

NextCleanup ==
    \E w \in Req :
        \/ CallNamedTemporaryFile(w)
        \/ CallCleanupChart(w, TmpName(w))
        \/ CallCleanupChart(w, NoPath)

SpecCleanup == InitCleanup /\ [][NextCleanup]_vars

(***************************************************************************)
(* Claims about the synthesizer (SpecSql).                                 *)
(***************************************************************************)
\* text[i..j] matches SELECT ... ; : the keyword in any case, a word boundary,
\* at least one character, a closing semicolon
IsSelectStatement(text, i, j) ==
    /\ 1 <= i /\ i + 7 <= j /\ j <= Len(text)
    /\ StartsAtI(text, i, kwSelect)
    /\ ~IsWord(text[i + 6])
    /\ text[j] = ";"

SelectStatements(text) ==
    {ij \in (1..Len(text)) \X (1..Len(text)) : IsSelectStatement(text, ij[1], ij[2])}

\* the first of them: the leftmost start, and the nearest semicolon
FirstSelectStatement(text) ==
    LET M == SelectStatements(text)
        f == CHOOSE ij \in M : \A o \in M :
                 ij[1] < o[1] \/ (ij[1] = o[1] /\ ij[2] <= o[2])
    IN  SubSeq(text, f[1], f[2])

\* C8 (as claimed): when the fence-stripped output contains a substring
\* matching SELECT ... ; question_to_sql returns the first such substring,
\* trimmed; when it contains none and its trimmed text does not start with
\* select, question_to_sql fails with the error carrying the raw output.
C8_AsClaimed ==
    ret.kind # "none" =>
        LET text == StripFences(arg)
        IN  IF SelectStatements(text) # {}
            THEN ret.kind = "ok" /\ ret.sql = Strip(FirstSelectStatement(text))
            ELSE ~StartsAtI(Strip(text), 1, kwSelect) =>
                     ret.kind = "ValueError" /\ ret.detail = arg

\* C8 (amended): when the fence-stripped output contains a substring matching
\* SELECT ... ; question_to_sql returns the first such substring, trimmed,
\* provided that substring begins with the letter s or S; when it begins with
\* U+017F, which the case-insensitive pattern accepts and the lower-casing
\* validation does not, question_to_sql fails with the error carrying the raw
\* output, as it does when there is no such substring and the trimmed text
\* does not start with select.
C8_Amended ==
    ret.kind # "none" =>
        LET text == StripFences(arg)
        IN  IF SelectStatements(text) # {}
            THEN IF FirstSelectStatement(text)[1] \in {"s", "S"}
                 THEN ret.kind = "ok" /\ ret.sql = Strip(FirstSelectStatement(text))
                 ELSE ret.kind = "ValueError" /\ ret.detail = arg
            ELSE ~StartsAtI(Strip(text), 1, kwSelect) =>
                     ret.kind = "ValueError" /\ ret.detail = arg

\* a fenced output from which a statement was extracted
C8_Witness ==
    /\ ret.kind = "ok"
    /\ StartsAt(arg, 1, kwFence)
    /\ SelectStatements(StripFences(arg)) # {}
    /\ ret.sql # arg

\* C9 (as claimed): every string question_to_sql returns begins with SELECT
\* in any case and is one statement that its final semicolon terminates.
C9_AsClaimed ==
    ret.kind = "ok" =>
        /\ StartsAtI(ret.sql, 1, kwSelect)
        /\ ret.sql[Len(ret.sql)] = ";"
        /\ \A i \in 1..(Len(ret.sql) - 1) : ret.sql[i] # ";"

(***************************************************************************)
(* Claims about the executor (SpecExec).                                   *)
(***************************************************************************)
\* C6: for a store result of N rows execute_query returns totalCount = N, the
\* first min(N, PREVIEW_ROW_LIMIT) rows in the store's order as previewRows,
\* and the keys of the first row (none when N = 0) as columns; so totalCount
\* is never below the number of preview rows.
C6_ResultSet ==
    ret.kind = "result" =>
        LET r == ret.value
            N == Len(arg)
            K == IF N <= PREVIEW_ROW_LIMIT THEN N ELSE PREVIEW_ROW_LIMIT
        IN  /\ r.total = N
            /\ Len(r.rows) = K
            /\ \A i \in 1..K : r.rows[i] = arg[i]
            /\ r.columns = IF N = 0 THEN <<>> ELSE <<"date", "revenue">>
            /\ r.total >= Len(r.rows)

\* a result longer than the preview cap has been executed
C6_Witness ==
    /\ ret.kind = "result"
    /\ Len(arg) > PREVIEW_ROW_LIMIT
    /\ Len(ret.value.rows) = PREVIEW_ROW_LIMIT

(***************************************************************************)
(* Claims about the pipeline (Spec).                                       *)
(***************************************************************************)
Has(seq, x) == \E i \in 1..Len(seq) : seq[i] = x
Kinds(w, k) == {i \in 1..Len(sent[w]) : sent[w][i].kind = k}
Failed(w, stage) == Has(started[w], stage) /\ stage \notin succeeded[w]
ChartWarning == "warning:Chart upload failed (non-critical)"

C2_AsClaimed ==
    \A w \in Req :
        pc[w] = "done" =>
            /\ files[w] # "present"
            /\ removals[w] = IF files[w] = "removed" THEN 1 ELSE 0

\* C3 (as claimed): when rendering failed, no temporary chart file remains
\* once the worker has ended.
C3_AsClaimed ==
    \A w \in Req :
        (pc[w] = "done" /\ Failed(w, "Rendering")) => files[w] # "present"

AfterExecuteQuery ==
    {"exec_err", "format", "deliver", "classify", "render", "savefig",
     "upload", "cleanup", "done"}

\* C4 (as claimed): once execute_query has been left, on whatever path, the
\* connection it acquired is back in its pool: none remains checked out.
C4_AsClaimed ==
    \A w \in Req :
        pc[w] \in AfterExecuteQuery =>
            /\ connection[w] = 0
            /\ \A p \in Req : w \notin pools[p].used

\* C5 (as claimed): execute_query never commits, and whenever it hands the
\* connection back to the pool it has rolled the transaction back itself.
C5_AsClaimed ==
    /\ committed = FALSE
    /\ \A w \in Req : pc[w] = "putconn" => (txn[w] = "idle" /\ ~pending[w])

\* C7 (as claimed, a message whose own sending raised counted as produced):
\* a worker that ended without delivering the primary response went through
\* one of the two error handlers.
C7_AsClaimed ==
    \A w \in Req :
        (pc[w] = "done" /\ started[w] # <<>> /\ Kinds(w, "primary") = {}) =>
            (Has(logs[w], "error:LLM error") \/ Has(logs[w], "error:DB error"))

TheError(w) == sent[w][CHOOSE i \in Kinds(w, "error") : TRUE]

\* C7 (amended): a synthesis or execution failure sends one error message
\* with its marker and the error detail (none only if that send raised) and
\* halts the request, the executor never invoked after a synthesis failure
\* and the attempted SQL in the execution message; a primary delivery that
\* raises is caught by nothing and yields no error message.
C7_Amended ==
    \A w \in Req :
        pc[w] = "done" =>
            /\ Failed(w, "Synthesizing") =>
                 /\ started[w] = <<"Synthesizing">>
                 /\ connection[w] = 0
                 /\ Kinds(w, "primary") = {} /\ Kinds(w, "chart") = {}
                 /\ IF exc[w] = NoExc
                    THEN /\ Cardinality(Kinds(w, "error")) = 1
                         /\ TheError(w).marker = ":x: Failed to generate SQL."
                         /\ TheError(w).detail \in GenerationErrors \cup {"ValueError"}
                    ELSE Kinds(w, "error") = {}
            /\ Failed(w, "Executing") =>
                 /\ started[w] = <<"Synthesizing", "Executing">>
                 /\ Kinds(w, "primary") = {} /\ Kinds(w, "chart") = {}
                 /\ IF exc[w] = NoExc
                    THEN /\ Cardinality(Kinds(w, "error")) = 1
                         /\ TheError(w).marker = ":x: Query execution failed."
                         /\ TheError(w).detail \notin {NoExc, "RespondError"}
                         /\ TheError(w).sql = sql[w] /\ sql[w] # NoSql
                    ELSE Kinds(w, "error") = {}
            /\ Failed(w, "DeliveredPrimary") =>
                 /\ started[w] = SubSeq(Stages, 1, 4)
                 /\ Kinds(w, "primary") = {} /\ Kinds(w, "chart") = {}
                 /\ Kinds(w, "error") = {}
                 /\ exc[w] = "RespondError"

\* a query failed, its error message was sent and the worker has ended
C7_Witness ==
    \E w \in Req :
        /\ pc[w] = "done"
        /\ Failed(w, "Executing")
        /\ Kinds(w, "error") # {}

IsPrefix(seq, whole) ==
    Len(seq) <= Len(whole) /\ \A i \in 1..Len(seq) : seq[i] = whole[i]

\* C10 (as claimed): the stages of a request begin in the fixed order, each
\* only after the one before it has completed successfully.
C10_AsClaimed ==
    \A w \in Req :
        /\ IsPrefix(started[w], Stages)
        /\ \A k \in 2..Len(started[w]) : Stages[k - 1] \in succeeded[w]

\* C10 (amended): the stages of a request begin in the fixed order, each only
\* after the one before it has completed successfully, except that disposal
\* follows the upload whether the upload succeeded or raised; it still needs
\* the rendering to have succeeded.
C10_Amended ==
    \A w \in Req :
        /\ IsPrefix(started[w], Stages)
        /\ \A k \in 2..Len(started[w]) :
               IF Stages[k] = "Disposed"
               THEN "Rendering" \in succeeded[w]
               ELSE Stages[k - 1] \in succeeded[w]

\* a request ran through all eight stages, its upload having raised
C10_Witness ==
    \E w \in Req :
        /\ started[w] = Stages
        /\ "DeliveredSecondary" \notin succeeded[w]
        /\ pc[w] = "done"

(***************************************************************************)
(* Claims about the entry point and the worker's uncaught errors (Spec).   *)
(***************************************************************************)
\* where the listener handle_ask_data is, and where the worker thread is
HandlerLocs == {"idle", "acked", "spawn"}
WorkerLocs  == {"synth", "synth_err", "get_pool", "new_pool", "getconn",
                "execute", "rollback", "putconn", "exec_err", "format",
                "deliver", "classify", "render", "savefig", "upload", "cleanup"}
UnhandledError == "error:Unhandled error"
Ack     == [kind |-> "ack"]
Notice  == [kind |-> "working"]
Usage   == [kind |-> "usage"]

\* no pipeline stage has touched request w
Untouched(w) ==
    /\ started[w] = <<>> /\ succeeded[w] = {}
    /\ sql[w] = NoSql /\ result[w] = NoResult /\ table[w] = NoTable
    /\ connection[w] = 0 /\ files[w] = "absent" /\ chart_path[w] = NoPath

\* C11: for a non-empty question the acknowledgment is sent first, then the
\* in-progress notice, and only then the worker runs; while the listener has
\* not returned no synthesis, query or chart step has run for the request;
\* and each step of the listener is enabled whatever the other requests'
\* workers are doing, so a slow or hung request delays no acknowledgment.
C11_Acceptance ==
    \A w \in Req :
        /\ sent[w] # <<>> => sent[w][1] = Ack
        /\ (pc[w] \in WorkerLocs \/ started[w] # <<>>) =>
               /\ question[w] # <<>>
               /\ Len(sent[w]) >= 2 /\ sent[w][1] = Ack /\ sent[w][2] = Notice
        /\ pc[w] \in HandlerLocs => Untouched(w)
        /\ (pc[w] = "done" /\ question[w] # <<>> /\ ~Has(logs[w], UnhandledError))
               => started[w] # <<>>
        /\ pc[w] = "idle" => ENABLED ReceiveCommand(w)
        /\ pc[w] = "acked" => ENABLED (UsageHint(w) \/ Working(w))
        /\ pc[w] = "spawn" => ENABLED Spawn(w)

\* a request is accepted and its worker started while the query of another
\* request is still running
C11_Witness ==
    \E v, w \in Req :
        /\ v # w
        /\ pc[v] = "execute"
        /\ pc[w] = "synth"
        /\ sent[w] = <<Ack, Notice>>

\* the command text is empty once trimmed
EmptyArgument(b) ==
    ~b.has_text \/ \A i \in 1..Len(b.text) : IsSpace(b.text[i])

\* C12: when the command text is empty after trimming, the request is
\* acknowledged and sent nothing but the usage hint, no worker is started and
\* no stage of the pipeline ever runs for it; the hint is missing only when
\* sending it raised, which the central handler logs.
C12_EmptyQuestion ==
    \A w \in Req :
        (pc[w] \notin {"idle", "absent"} /\ EmptyArgument(body[w])) =>
            /\ question[w] = <<>>
            /\ pc[w] \in {"acked", "done"}
            /\ Untouched(w)
            /\ IsPrefix(sent[w], <<Ack, Usage>>)
            /\ sent[w] # <<>>
            /\ pc[w] = "done" =>
                   (sent[w] = <<Ack, Usage>>) # Has(logs[w], UnhandledError)

\* a command of white space only has been answered with the usage hint
C12_Witness ==
    \E w \in Req :
        /\ pc[w] = "done"
        /\ body[w].has_text /\ body[w].text # <<>>
        /\ EmptyArgument(body[w])
        /\ sent[w] = <<Ack, Usage>>

\* C13 (as claimed): an error raised in a request's worker that no handler
\* of process() catches is logged by the central error handler.
C13_AsClaimed ==
    \A w \in Req :
        (pc[w] = "done" /\ started[w] # <<>> /\ exc[w] # NoExc) =>
            Has(logs[w], UnhandledError)

(***************************************************************************)
(* Claims about the formatter (SpecFormat).                                *)
(***************************************************************************)
\* C14: format_slack_table returns the no-rows message when there are no
\* preview rows, and otherwise a table whose footer is "Showing K of N rows."
\* (K preview rows, N the total) exactly when N > K; composed with
\* execute_query, a store result of N rows gets the footer exactly when
\* N > PREVIEW_ROW_LIMIT, and it reads "Showing 10 of N rows.".
C14_Footer ==
    /\ ret.kind = "formatted" =>
         LET K == Len(arg.rows)
             N == arg.total
         IN  IF K = 0 THEN ret.table = [kind |-> "no_rows"]
             ELSE /\ ret.table.kind = "table"
                  /\ ret.table.footer = IF N > K THEN <<K, N>> ELSE NoFooter
    /\ ret.kind = "result" =>
         LET N == Len(arg.rows)
         IN  IF N = 0 THEN ret.table = [kind |-> "no_rows"]
             ELSE /\ ret.table.kind = "table"
                  /\ ret.table.footer = IF N > 10 THEN <<10, N>> ELSE NoFooter

\* a store result one row longer than the preview cap has been formatted
C14_Witness ==
    /\ ret.kind = "result"
    /\ Len(arg.rows) = PREVIEW_ROW_LIMIT + 1
    /\ ret.table.footer = <<PREVIEW_ROW_LIMIT, PREVIEW_ROW_LIMIT + 1>>

(***************************************************************************)
(* Claims about the classifier (SpecClassify).                             *)
(***************************************************************************)
\* positions a..b of s hold white space only (none when b < a)
Blank(s, a, b) == \A k \in a..b : IsSpace(s[k])
\* the literal at i stands as a word of its own
WordAt(s, i, lit) ==
    /\ StartsAtI(s, i, lit)
    /\ (i = 1 \/ ~IsWord(s[i - 1]))
    /\ (i + Len(lit) > Len(s) \/ ~IsWord(s[i + Len(lit)]))
\* the literal at i begins where a word begins / ends where a word ends
WordStartAt(s, i, lit) == StartsAtI(s, i, lit) /\ (i = 1 \/ ~IsWord(s[i - 1]))
WordEndAt(s, i, lit) ==
    StartsAtI(s, i, lit) /\ (i + Len(lit) > Len(s) \/ ~IsWord(s[i + Len(lit)]))

\* a BETWEEN keyword
HasBetween(s) == \E i \in 1..Len(s) : WordAt(s, i, kwBetween)
\* the letters d-a-t-e, anywhere, then optional white space, then > or <
HasDateLettersThenOp(s) ==
    \E i \in 1..Len(s) :
        /\ StartsAtI(s, i, kwDate)
        /\ \E j \in (i + 4)..Len(s) :
               Blank(s, i + 4, j - 1) /\ s[j] \in {">", "<"}
\* the token date, then optional white space, then > or <
HasDateTokenThenOp(s) ==
    \E i \in 1..Len(s) :
        /\ WordAt(s, i, kwDate)
        /\ \E j \in (i + 4)..Len(s) :
               Blank(s, i + 4, j - 1) /\ s[j] \in {">", "<"}
\* the letters of kw, white space, the letters b-y, white space, the letters
\* d-a-t-e, wherever they stand
HasByDateLetters(s, kw) ==
    \E i \in 1..Len(s) :
        /\ StartsAtI(s, i, kw)
        /\ \E j \in (i + Len(kw) + 1)..Len(s) :
               /\ Blank(s, i + Len(kw), j - 1)
               /\ StartsAtI(s, j, kwBy)
               /\ \E k \in (j + 3)..Len(s) :
                      Blank(s, j + 2, k - 1) /\ StartsAtI(s, k, kwDate)
\* the clause kw BY date made of whole words
HasByDateClause(s, kw) ==
    \E i \in 1..Len(s) :
        /\ WordStartAt(s, i, kw)
        /\ \E j \in (i + Len(kw) + 1)..Len(s) :
               /\ Blank(s, i + Len(kw), j - 1)
               /\ StartsAtI(s, j, kwBy)
               /\ \E k \in (j + 3)..Len(s) :
                      Blank(s, j + 2, k - 1) /\ WordEndAt(s, k, kwDate)

\* the claim's reading of the SQL text
DateRangeAsClaimed(s) ==
    \/ HasBetween(s)
    \/ HasDateTokenThenOp(s)
    \/ HasByDateClause(s, kwGroup)
    \/ HasByDateClause(s, kwOrder)

\* C15 (as claimed): is_date_range_query returns true exactly for the texts
\* that hold a BETWEEN keyword, a comparison operator right after the token
\* date, or a GROUP BY date or ORDER BY date clause.
C15_AsClaimed ==
    ret.kind = "bool" => (ret.value <=> DateRangeAsClaimed(arg))

\* C15 (amended): is_date_range_query returns true exactly for the texts that
\* hold, compared case-insensitively, the whole word BETWEEN, or the letters
\* date (also as the tail of a longer word) followed by optional white space
\* and > or <, or GROUP or ORDER (also as the tail of a longer word), white
\* space, BY, white space and the letters date (also as the head of a longer
\* word).
C15_Amended ==
    ret.kind = "bool" =>
        (ret.value <=> \/ HasBetween(arg)
                       \/ HasDateLettersThenOp(arg)
                       \/ HasByDateLetters(arg, kwGroup)
                       \/ HasByDateLetters(arg, kwOrder))

\* a text classified as a date range although date is not a token of it
C15_Witness ==
    /\ ret.kind = "bool"
    /\ ret.value
    /\ ~DateRangeAsClaimed(arg)

(***************************************************************************)
(* Claims about the renderer (SpecChart).                                  *)
(***************************************************************************)
\* the columns after the first whose value in the first row parses as a float
NumericIdx(columns, rows) ==
    {i \in 2..Len(columns) : Get(rows[1], columns[i], "") \in FloatTexts}

\* at least 2 columns, at least 1 row, and a numeric column after the first
Eligible(columns, rows) ==
    /\ Len(columns) >= 2
    /\ rows # <<>>
    /\ NumericIdx(columns, rows) # {}

\* series lists exactly the numeric columns after the first, in column order
ExactSeries(series, columns, rows) ==
    LET idx == NumericIdx(columns, rows)
    IN  /\ Len(series) = Cardinality(idx)
        /\ \A i \in idx : series[Cardinality({j \in idx : j <= i})] = columns[i]

\* C16 (as claimed): generate_chart returns none, without raising and without
\* creating a file, when there are fewer than 2 columns, no rows, or no
\* numeric column after the first; otherwise what it returns is an artifact
\* whose plotted series are exactly the numeric columns after the first.
C16_AsClaimed ==
    ret.kind # "none" =>
        IF ~Eligible(arg.columns, arg.rows)
        THEN ret.kind = "returned" /\ ret.path = NoPath /\ files[1] = "absent"
        ELSE ret.kind = "returned" =>
                 /\ ret.path # NoPath /\ files[1] = "present"
                 /\ ExactSeries(ret.series, arg.columns, arg.rows)

\* C16 (amended): generate_chart returns none, without raising and without
\* creating a file, when matplotlib could not be imported, or there are fewer
\* than 2 columns, no rows, or no numeric column after the first; otherwise,
\* unless the plotting raises, what it returns is an artifact whose plotted
\* series are exactly the numeric columns after the first.
C16_Amended ==
    ret.kind # "none" =>
        IF ~matplotlib \/ ~Eligible(arg.columns, arg.rows)
        THEN ret.kind = "returned" /\ ret.path = NoPath /\ files[1] = "absent"
        ELSE /\ ExactSeries(ret.series, arg.columns, arg.rows)
             /\ ret.kind = "returned" =>
                    ret.path # NoPath /\ files[1] = "present"

\* without matplotlib a chartable result yields no artifact
C16_Witness ==
    /\ ret.kind = "returned"
    /\ ~matplotlib
    /\ Eligible(arg.columns, arg.rows)
    /\ ret.path = NoPath

(***************************************************************************)
(* Claims about the disposer (SpecCleanup).                                *)
(***************************************************************************)
\* C17 (as claimed): cleanup_chart never raises; called on the path of an
\* existing file it leaves the file gone; called on the path of a file that
\* was deleted or never created it changes nothing.
C17_AsClaimed ==
    ret.kind = "cleaned" =>
        /\ ~ret.raised
        /\ (ret.path # NoPath /\ ret.before = "present") => ret.after = "removed"
        /\ (ret.path # NoPath /\ ret.before # "present") => ret.after = ret.before

\* C17 (amended): cleanup_chart never raises; called on the path of an
\* existing file it leaves the file gone unless os.remove failed with an
\* OSError, which it swallows, leaving the file in place; called on the empty
\* path, or on the path of a file that was deleted or never created, it
\* changes nothing.
C17_Amended ==
    ret.kind = "cleaned" =>
        /\ ~ret.raised
        /\ IF ret.path # NoPath /\ ret.before = "present"
           THEN /\ ret.after \in {"removed", "present"}
                /\ ret.swallowed <=> ret.after = "present"
           ELSE ret.after = ret.before /\ ~ret.swallowed
        /\ \A w \in Req : removals[w] <= 1

\* a file was deleted by one call and a later call on the same path was a no-op
C17_Witness ==
    /\ ret.kind = "cleaned"
    /\ ret.calls >= 2
    /\ ret.path # NoPath
    /\ ret.before = "removed" /\ ret.after = "removed"

(***************************************************************************)
(* Claims about the chart step of the worker (SpecActive).                 *)
(***************************************************************************)
\* the condition under which process() enters the chart step
WantsChart(w) ==
    /\ "DeliveredPrimary" \in succeeded[w]
    /\ is_date_range_query(sql[w])
    /\ result[w].rows # <<>>

\* C18: the renderer is invoked for a request only if the primary response
\* was delivered, the classifier returns true for the synthesized SQL and the
\* preview rows are not empty, and it is invoked whenever that is so once
\* the worker has passed the classification; when the classifier returns
\* false or the result is empty nothing is rendered, uploaded or disposed.
C18_ChartOnlyWhenWanted ==
    \A w \in Req :
        /\ Has(started[w], "Rendering") =>
               (WantsChart(w) /\ Kinds(w, "primary") # {})
        /\ (WantsChart(w) /\ pc[w] \in {"savefig", "upload", "cleanup", "done"})
               => Has(started[w], "Rendering")
        /\ ("Classifying" \in succeeded[w]
              /\ (~is_date_range_query(sql[w]) \/ result[w].rows = <<>>)) =>
               /\ pc[w] = "done"
               /\ ~Has(started[w], "Rendering")
               /\ ~Has(started[w], "DeliveredSecondary")
               /\ ~Has(started[w], "Disposed")
               /\ files[w] = "absent" /\ removals[w] = 0
               /\ chart_path[w] = NoPath
               /\ Kinds(w, "chart") = {}

\* a date-range query that returned no rows ended without a chart step
C18_Witness ==
    \E w \in Req :
        /\ pc[w] = "done"
        /\ "Classifying" \in succeeded[w]
        /\ is_date_range_query(sql[w])
        /\ result[w].rows = <<>>
        /\ ~Has(started[w], "Rendering")

(***************************************************************************)
(* Claims about the connection pool (Spec, SpecPool).                      *)
(***************************************************************************)
\* C19 (as claimed): at most one pool is ever constructed, and a connection
\* is returned to the pool instance it was acquired from.
C19_AsClaimed ==
    /\ Cardinality({p \in Req : pools[p].created}) <= 1
    /\ \A w \in Req : pc[w] = "putconn" => connection[w] = _pool

\* C20 (as claimed): at most maxconn connections are checked out at any
\* moment, however many workers run, and a worker that is executing its SQL
\* holds a connection.
C20_AsClaimed ==
    /\ Cardinality({w \in DOMAIN connection : connection[w] # 0}) <= maxconn
    /\ \A w \in DOMAIN pc : pc[w] \in {"execute", "rollback"} => connection[w] # 0

====
